---- MODULE Spec2Model ----
(***************************************************************************)
(* Document ingestion and retrieval of the voice-bot backend:              *)
(*   DocumentService (services/documentService.ts), ChromaDBService        *)
(*   (services/chromaService.ts) and the Document model.                   *)
(*                                                                         *)
(* Several specifications share the module.                                *)
(*   Spec        the Metadata Store (MongoDB), the Vector Index (Chroma)   *)
(*               and the request handlers ingest / search / delete, cut at *)
(*               every await on a store.  generateEmbedding is used here   *)
(*               through its result only.                                  *)
(*   SpecEmbed   generateEmbedding itself: cache, quota window, rate-limit *)
(*               spacing and the clock, with concurrent callers.           *)
(*   SpecSingle  SpecEmbed with one call at a time.                        *)
(*   SpecIngest  an ingest cut at every await, its embedding loop going    *)
(*               through generateEmbedding; one upload at a time.          *)
(*   SpecSearch  the handlers of Spec run one at a time, with larger topK. *)
(*   SpecSplit   RecursiveCharacterTextSplitter.splitText, one loop        *)
(*               iteration per step.                                       *)
(*   SpecDedupe  the deduplication loop of chunkText on concrete strings.  *)
(*   SpecFallback  fallbackChunking, its loop test and loop body one step  *)
(*               each.                                                     *)
(* A handler runs on the single JavaScript thread, so the code between two *)
(* awaits is one atomic step.                                              *)
(***************************************************************************)
EXTENDS Integers, Sequences, FiniteSets, TLC

VARIABLES
    docs,        \* Metadata Store: document id -> Document record
    nextId,      \* next fresh document id
    index,       \* Vector Index: set of entries of the collection
    chroma,      \* ChromaDBService fields: isAvailable, collection, init
    proc,        \* one record per request handler in flight
    deletedBot,  \* history: the bot of every document deleted so far, by id
    now,                \* Date.now(), in milliseconds
    genAI,              \* DocumentService.genAI is set (an API key is configured)
    embeddingCache,     \* DocumentService.embeddingCache: cache key -> vector
    lastEmbeddingCall,  \* DocumentService.lastEmbeddingCall
    quotaExceeded,      \* DocumentService.quotaExceeded
    quotaResetTime,     \* DocumentService.quotaResetTime
    call,               \* one record per generateEmbedding call in flight
    upstreamStartedAt,  \* history: when embedContent was last invoked
    rateLimited,        \* history: the last rate-limit error and its reset time
    mocked,             \* history: the texts that were answered with a mock vector
    split,              \* the splitText call in progress: its locals
    dedup,              \* the deduplication of chunkText: input and output
    fallback            \* the fallbackChunking call in progress: its locals

storeVars == <<docs, nextId, index, chroma, proc, deletedBot>>

embedVars == <<now, genAI, embeddingCache, lastEmbeddingCall, quotaExceeded,
               quotaResetTime, call, upstreamStartedAt, rateLimited, mocked>>

chunkVars == <<split, dedup, fallback>>

vars == <<docs, nextId, index, chroma, proc, deletedBot, now, genAI,
          embeddingCache, lastEmbeddingCall, quotaExceeded, quotaResetTime,
          call, upstreamStartedAt, rateLimited, mocked, split, dedup,
          fallback>>

-----------------------------------------------------------------------------
(* Bounds *)

MaxDocs == 2        \* document ids handed out in one run
MaxWindows == 2     \* splitter windows of one extracted text
MaxTopK == 1        \* largest topK a retrieval asks for

Procs == {1, 2}
Bots == {"A", "B"}
Users == {"u1", "u2"}
DocIds == 1..MaxDocs
TopKs == 1..MaxTopK

\* scores and distances are kept in tenths: 5 stands for 0.5
NeutralScore == 5
ScoreOne == 10
Dists == {1, 3}

-----------------------------------------------------------------------------
(* Pure helpers *)

Min(a, b) == IF a < b THEN a ELSE b

Take(s, n) == SubSeq(s, 1, Min(n, Len(s)))

RECURSIVE SelectSeqBy(_, _)
\* Array.prototype.filter on a sequence of hits, keeping those whose
\* documentId is in ids
SelectSeqBy(s, ids) ==
    IF s = <<>> THEN <<>>
    ELSE IF Head(s).documentId \in ids
         THEN <<Head(s)>> \o SelectSeqBy(Tail(s), ids)
         ELSE SelectSeqBy(Tail(s), ids)

\* the owner of a bot: uploadDocument only ingests for a bot of the caller
BotOwner == [b \in Bots |-> IF b = "A" THEN "u1" ELSE "u2"]

\* A text is the sequence of its splitter windows.  "s" is a window whose
\* trimmed length is under 50: only the last window of a text can be short.
\* "a" and "b" are two long windows with different signatures; a text names
\* its first long window "a".
Windows == {"a", "b", "s"}

IsShort(w) == w = "s"

Texts ==
    {t \in UNION {[1..n -> Windows] : n \in 0..MaxWindows} :
        /\ \A i \in 1..Len(t) : i < Len(t) => ~IsShort(t[i])
        /\ \A i \in 1..Len(t) : t[i] = "b" => \E j \in 1..(i - 1) : t[j] = "a"}

RECURSIVE Dedupe(_, _)
\* the deduplication loop of chunkText: drop short windows, keep the first
\* window of each signature
Dedupe(ws, seen) ==
    IF ws = <<>> THEN <<>>
    ELSE IF IsShort(Head(ws)) \/ Head(ws) \in seen
         THEN Dedupe(Tail(ws), seen)
         ELSE <<Head(ws)>> \o Dedupe(Tail(ws), seen \cup {Head(ws)})

chunkText(text) == Dedupe(text, {})

\* the enum of the fileType path of the Document schema
FileTypeEnum == {"pdf", "txt", "doc", "docx"}

\* fileType the controller passes for each kind of upload
FileTypeOf(kind) == IF kind = "pdf" THEN "pdf" ELSE "url"

Filename(kind) == IF kind = "pdf" THEN "upload.pdf" ELSE "http://page"

\* generateEmbedding seen from a handler: it always answers with a vector
\* for the text (SpecEmbed models how)
EmbeddingOf(text) == [of |-> text]

RECURSIVE EmbedLoopShort(_, _)
\* EmbedLoop with a loop bound one too small
EmbedLoopShort(chunks, embeddings) ==
    IF Len(embeddings) + 1 >= Len(chunks) THEN embeddings
    ELSE EmbedLoopShort(chunks,
                        Append(embeddings, [of |-> chunks[Len(embeddings) + 1]]))

RECURSIVE EmbedLoop(_, _)
\* the embedding loop of processDocument / processDocumentFromText: one
\* await generateEmbedding per chunk, pushed in chunk order
EmbedLoop(chunks, embeddings) ==
    IF Len(embeddings) >= Len(chunks) THEN embeddings
    ELSE EmbedLoop(chunks,
                   Append(embeddings, EmbeddingOf(chunks[Len(embeddings) + 1])))

\* chunks.map((content, chunkIndex) => ({content, chunkIndex}))
ChunkRecords(chunks) ==
    [i \in 1..Len(chunks) |-> [content |-> chunks[i], chunkIndex |-> i - 1]]

DocumentRecord(botId, userId, kind, chunks) ==
    [botId |-> botId, userId |-> userId, filename |-> Filename(kind),
     source |-> kind, chunks |-> ChunkRecords(chunks),
     totalChunks |-> Len(chunks), processed |-> TRUE]

\* IndexEntries with chunk indexes counted from one
IndexEntriesFromOne(documentId, chunks, embeddings) ==
    {[id |-> <<documentId, i - 1>>, documentId |-> documentId,
      chunkIndex |-> i, text |-> chunks[i], embedding |-> embeddings[i]] :
        i \in 1..Len(chunks)}

\* ids, metadatas, documents and embeddings handed to collection.add
IndexEntries(documentId, chunks, embeddings) ==
    {[id |-> <<documentId, i - 1>>, documentId |-> documentId,
      chunkIndex |-> i - 1, text |-> chunks[i], embedding |-> embeddings[i]] :
        i \in 1..Len(chunks)}

\* ChromaDBService.isConnected
isConnected == chroma.isAvailable /\ chroma.collection

\* ChromaDBService.ensureCollection: TRUE for a collection, FALSE for null
ensureCollection == IF ~chroma.isAvailable THEN FALSE ELSE chroma.collection

RECURSIVE FindFromAnyBot(_, _)
\* FindFrom without the botId of the filter
FindFromAnyBot(d, botId) ==
    IF d >= nextId THEN <<>>
    ELSE IF d \in DOMAIN docs /\ docs[d].processed
         THEN <<[id |-> d, filename |-> docs[d].filename, chunks |-> docs[d].chunks]>>
              \o FindFromAnyBot(d + 1, botId)
         ELSE FindFromAnyBot(d + 1, botId)

RECURSIVE FindFrom(_, _)
FindFrom(d, botId) ==
    IF d >= nextId THEN <<>>
    ELSE IF d \in DOMAIN docs /\ docs[d].botId = botId /\ docs[d].processed
         THEN <<[id |-> d, filename |-> docs[d].filename, chunks |-> docs[d].chunks]>>
              \o FindFrom(d + 1, botId)
         ELSE FindFrom(d + 1, botId)

\* DocumentModel.find({botId, processed: true}): the records in insertion order
FindDocuments(botId) == FindFrom(1, botId)

\* collection.query(nResults: n): the n nearest entries, nearest first
QueryHits(n) ==
    LET k == Min(n, Cardinality(index))
    IN {h \in [1..k -> [entry : index, distance : Dists]] :
          /\ \A i, j \in 1..k : i # j => h[i].entry # h[j].entry
          /\ \A i, j \in 1..k : i < j => h[i].distance <= h[j].distance}

\* TransformHits with the distance taken as the score
TransformHitsRawDistance(h) ==
    [i \in 1..Len(h) |->
        [id |-> h[i].entry.id, text |-> h[i].entry.text,
         score |-> h[i].distance,
         distance |-> h[i].distance,
         documentId |-> h[i].entry.documentId]]

\* the transform loop of searchSimilar
TransformHits(h) ==
    [i \in 1..Len(h) |->
        [id |-> h[i].entry.id, text |-> h[i].entry.text,
         score |-> ScoreOne - h[i].distance,
         distance |-> h[i].distance,
         documentId |-> h[i].entry.documentId]]

\* FilterResults without the scoping to the bot's documents
FilterResultsUnscoped(chromaResults, documentIds) == chromaResults

\* chromaResults.filter(result => documentIds.includes(metadata.documentId))
FilterResults(chromaResults, documentIds) ==
    SelectSeqBy(chromaResults, documentIds)

\* docMap.get(documentId) || 'Unknown'
DocMapGet(documents, documentId) ==
    IF \E i \in 1..Len(documents) : documents[i].id = documentId
    THEN documents[CHOOSE i \in 1..Len(documents) : documents[i].id = documentId].filename
    ELSE "Unknown"

\* filteredResults.slice(0, topK).map(...); documentId and distance are kept
\* with each result to name the document and the hit it came from
FormatResults(filtered, topK, documents) ==
    LET top == Take(filtered, topK)
    IN [i \in 1..Len(top) |->
          [content |-> top[i].text, score |-> top[i].score,
           filename |-> DocMapGet(documents, top[i].documentId),
           documentId |-> top[i].documentId,
           distance |-> top[i].distance]]

RECURSIVE FallbackFrom(_, _)
\* the nested loop of the MongoDB fallback over documents and their chunks
FallbackFrom(documents, i) ==
    IF i > Len(documents) THEN <<>>
    ELSE LET cs == documents[i].chunks
         IN [j \in 1..Len(cs) |->
                [content |-> cs[j].content, score |-> NeutralScore,
                 filename |-> documents[i].filename,
                 documentId |-> documents[i].id]]
            \o FallbackFrom(documents, i + 1)

\* FallbackResults without the slice
FallbackResultsUnsliced(documents, topK) == FallbackFrom(documents, 1)

\* results.slice(0, topK)
FallbackResults(documents, topK) == Take(FallbackFrom(documents, 1), topK)

-----------------------------------------------------------------------------
(* Handlers.  The code of a handler that touches neither store runs in the  *)
(* same step as the store call that follows it.                             *)

\* a handler slot with no request
Idle ==
    [op |-> "none", pc |-> "idle", botId |-> "A", userId |-> "u1",
     chunks |-> <<>>, embeddings |-> <<>>, docId |-> 0,
     topK |-> 0, documentIds |-> {}, filename |-> "", results |-> <<>>,
     path |-> "none", outcome |-> "none", flag |-> FALSE, text |-> <<>>]

StoreInit ==
    /\ docs = <<>>
    /\ nextId = 1
    /\ index = {}
    /\ chroma = [isAvailable |-> FALSE, collection |-> FALSE, init |-> "connecting"]
    /\ proc = [p \in Procs |-> Idle]
    /\ deletedBot = <<>>

\* a finished handler returns its result before the event loop runs the
\* next callback
NoneDone == \A q \in Procs : proc[q].pc # "done"

\* a new request takes the first free handler slot
FreeSlot(p) ==
    /\ NoneDone
    /\ proc[p].pc = "idle"
    /\ \A q \in Procs : q < p => proc[q].pc # "idle"

\* ChromaDBService.initialize, started by startServer and not awaited
Initialize(ok) ==
    /\ NoneDone
    /\ chroma.init = "connecting"
    /\ chroma' = [isAvailable |-> ok, collection |-> ok, init |-> "done"]
    /\ UNCHANGED <<docs, nextId, index, proc, deletedBot>>
    /\ UNCHANGED embedVars
    /\ UNCHANGED chunkVars

\* Raised with the error swallowed instead of rethrown
RaisedSwallowed(p, botId, at) ==
    [Idle EXCEPT !.op = "ingest", !.pc = "done", !.botId = botId,
                 !.userId = BotOwner[botId], !.outcome = "ok", !.path = at]

\* an ingest that stops with an error thrown to the caller
Raised(p, botId, at) ==
    [Idle EXCEPT !.op = "ingest", !.pc = "done", !.botId = botId,
                 !.userId = BotOwner[botId], !.outcome = "raised", !.path = at]

\* uploadDocument -> processDocument (kind "pdf": parsePDF) or extractFromURL
\* + processDocumentFromText (kind "url"), up to the answer of
\* DocumentModel.create and, when it succeeds, the call of collection.add
Ingest(p, kind, botId, extractOk, text, dbOk) ==
    /\ FreeSlot(p)
    /\ nextId <= MaxDocs
    /\ kind = "url" => text # <<>> /\ ~IsShort(text[1])
    /\ LET chunks == chunkText(text)
           embeddings == EmbedLoop(chunks, <<>>)
           d == nextId
           rec == DocumentRecord(botId, BotOwner[botId], kind, chunks)
       IN IF ~extractOk \/ text = <<>>
          THEN /\ proc' = [proc EXCEPT ![p] = Raised(p, botId, "extract")]
               /\ UNCHANGED <<docs, nextId>>
          ELSE IF ~dbOk \/ FileTypeOf(kind) \notin FileTypeEnum
          THEN /\ proc' = [proc EXCEPT ![p] =
                      [Raised(p, botId, "create") EXCEPT
                          !.chunks = chunks, !.embeddings = embeddings]]
               /\ UNCHANGED <<docs, nextId>>
          ELSE /\ docs' = docs @@ (d :> rec)
               /\ nextId' = nextId + 1
               /\ proc' = [proc EXCEPT ![p] =
                      [Idle EXCEPT !.op = "ingest", !.botId = botId,
                                   !.userId = BotOwner[botId],
                                   !.chunks = chunks, !.embeddings = embeddings,
                                   !.docId = d,
                                   !.pc = IF ensureCollection THEN "add" ELSE "done",
                                   !.outcome = IF ensureCollection THEN "none" ELSE "ok",
                                   !.path = IF ensureCollection THEN "none" ELSE "skipped"]]
    /\ UNCHANGED <<index, chroma, deletedBot>>
    /\ UNCHANGED embedVars
    /\ UNCHANGED chunkVars

\* IndexAdd with the error of collection.add thrown on to the caller
IndexAddRaising(p, ok) ==
    /\ NoneDone
    /\ proc[p].op = "ingest" /\ proc[p].pc = "add"
    /\ index' = IF ok
                THEN index \cup IndexEntries(proc[p].docId, proc[p].chunks,
                                             proc[p].embeddings)
                ELSE index
    /\ proc' = [proc EXCEPT ![p] =
                  [@ EXCEPT !.pc = "done",
                            !.outcome = IF ok THEN "ok" ELSE "raised",
                            !.path = IF ok THEN "indexed" ELSE "addFailed"]]
    /\ UNCHANGED <<docs, nextId, chroma, deletedBot>>
    /\ UNCHANGED embedVars
    /\ UNCHANGED chunkVars

\* collection.add answers or throws; addEmbeddings swallows the error and
\* the ingest returns the document id
IndexAdd(p, ok) ==
    /\ NoneDone
    /\ proc[p].op = "ingest" /\ proc[p].pc = "add"
    /\ index' = IF ok
                THEN index \cup IndexEntries(proc[p].docId, proc[p].chunks,
                                             proc[p].embeddings)
                ELSE index
    /\ proc' = [proc EXCEPT ![p] =
                  [@ EXCEPT !.pc = "done", !.outcome = "ok",
                            !.path = IF ok THEN "indexed" ELSE "addFailed"]]
    /\ UNCHANGED <<docs, nextId, chroma, deletedBot>>
    /\ UNCHANGED embedVars
    /\ UNCHANGED chunkVars

\* searchDocuments up to the answer of DocumentModel.find, the isConnected
\* branch and, on the fallback branch, the result
Search(p, botId, topK, dbOk) ==
    /\ FreeSlot(p)
    /\ LET documents == FindDocuments(botId)
           me == [Idle EXCEPT !.op = "search", !.botId = botId, !.topK = topK]
       IN proc' = [proc EXCEPT ![p] =
            IF ~dbOk
            THEN [me EXCEPT !.pc = "done", !.outcome = "ok", !.path = "caught"]
            ELSE IF documents = <<>>
            THEN [me EXCEPT !.pc = "done", !.outcome = "ok", !.path = "nodocs"]
            ELSE IF isConnected
            THEN [me EXCEPT !.pc = "query",
                            !.documentIds = {documents[i].id : i \in 1..Len(documents)},
                            !.filename = documents[1].filename]
            ELSE [me EXCEPT !.pc = "done", !.outcome = "ok", !.path = "fallback",
                            !.documentIds = {documents[i].id : i \in 1..Len(documents)},
                            !.results = FallbackResults(documents, topK)]]
    /\ UNCHANGED <<docs, nextId, index, chroma, deletedBot>>
    /\ UNCHANGED embedVars
    /\ UNCHANGED chunkVars

\* the documents a search found, as its docMap holds them
DocMapOf(p) == 
    LET ids == proc[p].documentIds
    IN [i \in 1..Cardinality(ids) |->
          [id |-> CHOOSE d \in ids : Cardinality({x \in ids : x < d}) = i - 1,
           filename |-> proc[p].filename]]

\* collection.query answers with hits or throws (searchSimilar then returns
\* []); filter, slice and format
IndexQuery(p, ok, hits) ==
    /\ NoneDone
    /\ proc[p].op = "search" /\ proc[p].pc = "query"
    /\ hits \in QueryHits(proc[p].topK * 2)
    /\ LET chromaResults == IF ok THEN TransformHits(hits) ELSE <<>>
           filtered == FilterResults(chromaResults, proc[p].documentIds)
       IN proc' = [proc EXCEPT ![p] =
            [@ EXCEPT !.pc = "done", !.outcome = "ok",
                      !.path = IF ok THEN "vector" ELSE "queryFailed",
                      !.results = FormatResults(filtered, proc[p].topK, DocMapOf(p))]]
    /\ UNCHANGED <<docs, nextId, index, chroma, deletedBot>>
    /\ UNCHANGED embedVars
    /\ UNCHANGED chunkVars

\* Delete with deleteOne({ _id }): the userId of the filter is left out
DeleteAnyOwner(p, documentId, userId, dbOk) ==
    /\ FreeSlot(p)
    /\ LET matched == documentId \in DOMAIN docs
           me == [Idle EXCEPT !.op = "delete", !.docId = documentId, !.userId = userId]
       IN IF dbOk /\ matched
          THEN /\ docs' = [x \in DOMAIN docs \ {documentId} |-> docs[x]]
               /\ deletedBot' = deletedBot @@ (documentId :> docs[documentId].botId)
               /\ proc' = [proc EXCEPT ![p] =
                     IF ensureCollection
                     THEN [me EXCEPT !.pc = "indexDelete"]
                     ELSE [me EXCEPT !.pc = "done", !.outcome = "ok",
                                     !.flag = TRUE, !.path = "skipped"]]
          ELSE /\ proc' = [proc EXCEPT ![p] =
                      [me EXCEPT !.pc = "done", !.outcome = "ok", !.flag = FALSE,
                                 !.path = IF dbOk THEN "nomatch" ELSE "caught"]]
               /\ UNCHANGED <<docs, deletedBot>>
    /\ UNCHANGED <<nextId, index, chroma>>
    /\ UNCHANGED embedVars
    /\ UNCHANGED chunkVars

\* deleteDocument up to the answer of DocumentModel.deleteOne; with
\* deletedCount > 0, chromaService.deleteDocument up to collection.delete
Delete(p, documentId, userId, dbOk) ==
    /\ FreeSlot(p)
    /\ LET matched == documentId \in DOMAIN docs /\ docs[documentId].userId = userId
           me == [Idle EXCEPT !.op = "delete", !.docId = documentId, !.userId = userId]
       IN IF dbOk /\ matched
          THEN /\ docs' = [x \in DOMAIN docs \ {documentId} |-> docs[x]]
               /\ deletedBot' = deletedBot @@ (documentId :> docs[documentId].botId)
               /\ proc' = [proc EXCEPT ![p] =
                     IF ensureCollection
                     THEN [me EXCEPT !.pc = "indexDelete"]
                     ELSE [me EXCEPT !.pc = "done", !.outcome = "ok",
                                     !.flag = TRUE, !.path = "skipped"]]
          ELSE /\ proc' = [proc EXCEPT ![p] =
                      [me EXCEPT !.pc = "done", !.outcome = "ok", !.flag = FALSE,
                                 !.path = IF dbOk THEN "nomatch" ELSE "caught"]]
               /\ UNCHANGED <<docs, deletedBot>>
    /\ UNCHANGED <<nextId, index, chroma>>
    /\ UNCHANGED embedVars
    /\ UNCHANGED chunkVars

\* collection.delete({where: {documentId}}) answers or throws; the error is
\* swallowed and deleteDocument returns true
IndexDelete(p, ok) ==
    /\ NoneDone
    /\ proc[p].op = "delete" /\ proc[p].pc = "indexDelete"
    /\ index' = IF ok THEN {e \in index : e.documentId # proc[p].docId} ELSE index
    /\ proc' = [proc EXCEPT ![p] =
                  [@ EXCEPT !.pc = "done", !.outcome = "ok", !.flag = TRUE,
                            !.path = IF ok THEN "indexDeleted" ELSE "indexDeleteFailed"]]
    /\ UNCHANGED <<docs, nextId, chroma, deletedBot>>
    /\ UNCHANGED embedVars
    /\ UNCHANGED chunkVars

\* the handler hands its result to the caller
Return(p) ==
    /\ proc[p].pc = "done"
    /\ proc' = [proc EXCEPT ![p] = Idle]
    /\ UNCHANGED <<docs, nextId, index, chroma, deletedBot>>
    /\ UNCHANGED embedVars
    /\ UNCHANGED chunkVars

-----------------------------------------------------------------------------
(* generateEmbedding: cache, quota window, rate-limit spacing *)

embeddingDelay == 1000
DefaultQuotaWindow == 60000
EmbeddingDim == 768

TickMs == 500       \* resolution of the clock
MaxTime == 3000     \* the clock stops here

Callers == {1, 2}
RetrySeconds == {1}

\* A text is <<its first 100 characters, the rest>>; <<"", "">> is the
\* empty string.
EmbedTexts == {<<"", "">>, <<"p", "">>, <<"p", "x">>}

\* CacheKey with the whole text as the key
CacheKeyWholeText(text) == text

\* text.substring(0, 100)
CacheKey(text) == text[1]

NoVector == [src |-> "none", dim |-> 0, of |-> <<"", "">>]

\* MockEmbedding without the fill: map skips the holes of Array(768)
MockEmbeddingUnfilled == [src |-> "mock", dim |-> 0, of |-> <<"", "">>]

\* Array(768).fill(0).map(() => Math.random())
MockEmbedding == [src |-> "mock", dim |-> EmbeddingDim, of |-> <<"", "">>]

\* result.embedding.values of model embedding-001 for the text
UpstreamEmbedding(text) == [src |-> "upstream", dim |-> EmbeddingDim, of |-> text]

\* what embedContent answers: the vector, or an error with its status, a
\* message that may hold 'quota', and an optional RetryInfo detail
UpstreamAnswers ==
    {[ok |-> TRUE, status |-> 200, quotaMessage |-> FALSE,
      hasRetryInfo |-> FALSE, retrySeconds |-> 0]}
    \cup {[ok |-> FALSE, status |-> st, quotaMessage |-> q,
           hasRetryInfo |-> FALSE, retrySeconds |-> 0] :
             st \in {429, 500}, q \in BOOLEAN}
    \cup {[ok |-> FALSE, status |-> 429, quotaMessage |-> FALSE,
           hasRetryInfo |-> TRUE, retrySeconds |-> r] : r \in RetrySeconds}

\* error.status === 429 || error.message?.includes('quota')
IsRateLimitError(err) == err.status = 429 \/ err.quotaMessage

\* QuotaWindowActive with the comparison turned round
QuotaWindowActiveFlipped == quotaExceeded /\ now > quotaResetTime

\* this.quotaExceeded && Date.now() < this.quotaResetTime
QuotaWindowActive == quotaExceeded /\ now < quotaResetTime

\* DocumentService.isQuotaExceeded
isQuotaExceeded == quotaExceeded /\ now < quotaResetTime

\* Math.ceil(a / b) for b > 0
CeilDiv(a, b) == -((-a) \div b)

\* DocumentService.getQuotaResetTime, in seconds
getQuotaResetTime ==
    IF ~quotaExceeded THEN 0
    ELSE CeilDiv(quotaResetTime - now, 1000)

\* the reset time the catch block computes
ResetTimeFor(err) ==
    IF err.hasRetryInfo THEN now + err.retrySeconds * 1000
    ELSE now + DefaultQuotaWindow

\* embeddingCache.set(cacheKey, values)
CacheSet(cacheKey, v) ==
    [k \in DOMAIN embeddingCache \cup {cacheKey} |->
        IF k = cacheKey THEN v ELSE embeddingCache[k]]

\* a caller slot with no call
CallIdle ==
    [pc |-> "idle", text |-> <<"", "">>, wakeAt |-> 0, result |-> NoVector,
     path |-> "none", outcome |-> "none"]

EmbedInit ==
    /\ now = embeddingDelay
    /\ genAI \in BOOLEAN
    /\ embeddingCache = <<>>
    /\ lastEmbeddingCall = 0
    /\ quotaExceeded = FALSE
    /\ quotaResetTime = 0
    /\ call = [c \in Callers |-> CallIdle]
    /\ upstreamStartedAt = 0
    /\ rateLimited = [seen |-> FALSE, reset |-> 0]
    /\ mocked = {}

\* a finished call returns before the event loop runs the next callback
NoCallDone == \A c \in Callers : call[c].pc # "done"

\* a new call takes the first free caller slot
FreeCaller(c) ==
    /\ NoCallDone
    /\ call[c].pc = "idle"
    /\ \A q \in Callers : q < c => call[q].pc # "idle"

\* a call that ends by returning v
Returned(me, v, path) ==
    [me EXCEPT !.pc = "done", !.result = v, !.path = path, !.outcome = "returned"]

\* generateEmbedding from its entry to its first await: the cache lookup,
\* the quota check, the genAI check, and either the rate-limit timer or
\* the call of embedContent
generateEmbedding(c, text) ==
    /\ FreeCaller(c)
    /\ LET cacheKey == CacheKey(text)
           me == [CallIdle EXCEPT !.text = text]
           timeSinceLastCall == now - lastEmbeddingCall
       IN IF cacheKey \in DOMAIN embeddingCache
          THEN /\ call' = [call EXCEPT ![c] = Returned(me, embeddingCache[cacheKey], "cache")]
               /\ UNCHANGED <<lastEmbeddingCall, upstreamStartedAt, mocked>>
          ELSE IF QuotaWindowActive
          THEN /\ call' = [call EXCEPT ![c] = Returned(me, MockEmbedding, "quota")]
               /\ mocked' = mocked \cup {text}
               /\ UNCHANGED <<lastEmbeddingCall, upstreamStartedAt>>
          ELSE IF ~genAI
          THEN /\ call' = [call EXCEPT ![c] = Returned(me, MockEmbedding, "unconfigured")]
               /\ mocked' = mocked \cup {text}
               /\ UNCHANGED <<lastEmbeddingCall, upstreamStartedAt>>
          ELSE IF timeSinceLastCall < embeddingDelay
          THEN /\ call' = [call EXCEPT ![c] =
                      [me EXCEPT !.pc = "waiting",
                                 !.wakeAt = now + (embeddingDelay - timeSinceLastCall)]]
               /\ UNCHANGED <<lastEmbeddingCall, upstreamStartedAt, mocked>>
          ELSE /\ call' = [call EXCEPT ![c] = [me EXCEPT !.pc = "upstream"]]
               /\ lastEmbeddingCall' = now
               /\ upstreamStartedAt' = now
               /\ UNCHANGED mocked
    /\ UNCHANGED <<now, genAI, embeddingCache, quotaExceeded, quotaResetTime, rateLimited>>
    /\ UNCHANGED storeVars
    /\ UNCHANGED chunkVars

\* the rate-limit timer fires: lastEmbeddingCall is set and embedContent
\* is called
Wake(c) ==
    /\ NoCallDone
    /\ call[c].pc = "waiting"
    /\ now >= call[c].wakeAt
    /\ call' = [call EXCEPT ![c] = [@ EXCEPT !.pc = "upstream"]]
    /\ lastEmbeddingCall' = now
    /\ upstreamStartedAt' = now
    /\ UNCHANGED <<now, genAI, embeddingCache, quotaExceeded, quotaResetTime,
                   rateLimited, mocked>>
    /\ UNCHANGED storeVars
    /\ UNCHANGED chunkVars

\* UpstreamAnswer with a catch block that opens the quota window on every
\* error
UpstreamAnswerAnyErrorOpensWindow(c, ans) ==
    /\ NoCallDone
    /\ call[c].pc = "upstream"
    /\ IF ans.ok
       THEN /\ embeddingCache' = CacheSet(CacheKey(call[c].text),
                                          UpstreamEmbedding(call[c].text))
            /\ quotaExceeded' = FALSE
            /\ call' = [call EXCEPT ![c] =
                          Returned(@, UpstreamEmbedding(call[c].text), "upstream")]
            /\ UNCHANGED <<quotaResetTime, rateLimited, mocked>>
       ELSE IF IsRateLimitError(ans)
       THEN /\ quotaResetTime' = ResetTimeFor(ans)
            /\ quotaExceeded' = TRUE
            /\ rateLimited' = [seen |-> TRUE, reset |-> ResetTimeFor(ans)]
            /\ call' = [call EXCEPT ![c] = Returned(@, MockEmbedding, "rateLimit")]
            /\ mocked' = mocked \cup {call[c].text}
            /\ UNCHANGED embeddingCache
       ELSE /\ quotaResetTime' = ResetTimeFor(ans)
            /\ quotaExceeded' = TRUE
            /\ call' = [call EXCEPT ![c] = Returned(@, MockEmbedding, "error")]
            /\ mocked' = mocked \cup {call[c].text}
            /\ UNCHANGED <<embeddingCache, rateLimited>>
    /\ UNCHANGED <<now, genAI, lastEmbeddingCall, upstreamStartedAt>>
    /\ UNCHANGED storeVars
    /\ UNCHANGED chunkVars

\* UpstreamAnswer with the cache written on the way out of the catch block
UpstreamAnswerCachesMock(c, ans) ==
    /\ NoCallDone
    /\ call[c].pc = "upstream"
    /\ IF ans.ok
       THEN /\ embeddingCache' = CacheSet(CacheKey(call[c].text),
                                          UpstreamEmbedding(call[c].text))
            /\ quotaExceeded' = FALSE
            /\ call' = [call EXCEPT ![c] =
                          Returned(@, UpstreamEmbedding(call[c].text), "upstream")]
            /\ UNCHANGED <<quotaResetTime, rateLimited, mocked>>
       ELSE IF IsRateLimitError(ans)
       THEN /\ quotaResetTime' = ResetTimeFor(ans)
            /\ quotaExceeded' = TRUE
            /\ rateLimited' = [seen |-> TRUE, reset |-> ResetTimeFor(ans)]
            /\ call' = [call EXCEPT ![c] = Returned(@, MockEmbedding, "rateLimit")]
            /\ mocked' = mocked \cup {call[c].text}
            /\ embeddingCache' = CacheSet(CacheKey(call[c].text), MockEmbedding)
       ELSE /\ call' = [call EXCEPT ![c] = Returned(@, MockEmbedding, "error")]
            /\ mocked' = mocked \cup {call[c].text}
            /\ embeddingCache' = CacheSet(CacheKey(call[c].text), MockEmbedding)
            /\ UNCHANGED <<quotaExceeded, quotaResetTime, rateLimited>>
    /\ UNCHANGED <<now, genAI, lastEmbeddingCall, upstreamStartedAt>>
    /\ UNCHANGED storeVars
    /\ UNCHANGED chunkVars

\* embedContent answers: the success path, or the catch block
UpstreamAnswer(c, ans) ==
    /\ NoCallDone
    /\ call[c].pc = "upstream"
    /\ IF ans.ok
       THEN /\ embeddingCache' = CacheSet(CacheKey(call[c].text),
                                          UpstreamEmbedding(call[c].text))
            /\ quotaExceeded' = FALSE
            /\ call' = [call EXCEPT ![c] =
                          Returned(@, UpstreamEmbedding(call[c].text), "upstream")]
            /\ UNCHANGED <<quotaResetTime, rateLimited, mocked>>
       ELSE IF IsRateLimitError(ans)
       THEN /\ quotaResetTime' = ResetTimeFor(ans)
            /\ quotaExceeded' = TRUE
            /\ rateLimited' = [seen |-> TRUE, reset |-> ResetTimeFor(ans)]
            /\ call' = [call EXCEPT ![c] = Returned(@, MockEmbedding, "rateLimit")]
            /\ mocked' = mocked \cup {call[c].text}
            /\ UNCHANGED embeddingCache
       ELSE /\ call' = [call EXCEPT ![c] = Returned(@, MockEmbedding, "error")]
            /\ mocked' = mocked \cup {call[c].text}
            /\ UNCHANGED <<embeddingCache, quotaExceeded, quotaResetTime, rateLimited>>
    /\ UNCHANGED <<now, genAI, lastEmbeddingCall, upstreamStartedAt>>
    /\ UNCHANGED storeVars
    /\ UNCHANGED chunkVars

\* the vector is handed to the caller
EmbedReturn(c) ==
    /\ call[c].pc = "done"
    /\ call' = [call EXCEPT ![c] = CallIdle]
    /\ UNCHANGED <<now, genAI, embeddingCache, lastEmbeddingCall, quotaExceeded,
                   quotaResetTime, upstreamStartedAt, rateLimited, mocked>>
    /\ UNCHANGED storeVars
    /\ UNCHANGED chunkVars

\* time passes
Tick ==
    /\ NoCallDone
    /\ now + TickMs <= MaxTime
    /\ now' = now + TickMs
    /\ UNCHANGED <<genAI, embeddingCache, lastEmbeddingCall, quotaExceeded,
                   quotaResetTime, call, upstreamStartedAt, rateLimited, mocked>>
    /\ UNCHANGED storeVars
    /\ UNCHANGED chunkVars

\* generateEmbedding called while no other call is in flight
generateEmbeddingAlone(c, text) ==
    /\ \A q \in Callers : call[q].pc = "idle"
    /\ generateEmbedding(c, text)

-----------------------------------------------------------------------------
(* An ingest cut at every await: extraction and chunking, one               *)
(* generateEmbedding call per chunk, DocumentModel.create, collection.add.  *)
(* One upload is handled at a time.                                         *)

\* a chunk as the text handed to generateEmbedding: the chunks "a" and "b"
\* differ in their first 100 characters
ChunkText(w) == <<w, "">>

ChunkTexts == {ChunkText(w) : w \in Windows}

KindOf(filename) == IF filename = Filename("pdf") THEN "pdf" ELSE "url"

\* ExtractionFailed without the test for blank text
ExtractionFailedBlankPasses(extractOk, text) == ~extractOk

\* parsePDF or extractFromURL throws, or the text is empty after trim()
\* (<<>> stands for every text with text.trim().length = 0)
ExtractionFailed(extractOk, text) == ~extractOk \/ text = <<>>

\* the generateEmbedding call of the embedding loop is in flight in slot c
OwnCall(c) == call[c].pc # "idle" /\ call[c].text \in ChunkTexts

\* uploadDocument up to the first generateEmbedding call: extraction, the
\* blank-text test and chunkText
IngestBegin(p, kind, botId, extractOk, text) ==
    /\ FreeSlot(p)
    /\ NoCallDone
    /\ nextId <= MaxDocs
    /\ \A q \in Procs : proc[q].pc = "idle"
    /\ kind = "url" => text # <<>> /\ ~IsShort(text[1])
    /\ LET chunks == chunkText(text)
       IN proc' = [proc EXCEPT ![p] =
             IF ExtractionFailed(extractOk, text)
             THEN Raised(p, botId, "extract")
             ELSE [Idle EXCEPT !.op = "ingest", !.botId = botId,
                               !.userId = BotOwner[botId],
                               !.filename = Filename(kind),
                               !.text = text, !.chunks = chunks,
                               !.pc = IF chunks = <<>> THEN "create" ELSE "embed"]]
    /\ UNCHANGED <<docs, nextId, index, chroma, deletedBot>>
    /\ UNCHANGED embedVars
    /\ UNCHANGED chunkVars

\* await this.generateEmbedding(chunk) for the next chunk of the loop
IngestEmbed(p, c) ==
    /\ NoneDone
    /\ proc[p].op = "ingest" /\ proc[p].pc = "embed"
    /\ \A q \in Callers : ~OwnCall(q)
    /\ generateEmbedding(c, ChunkText(proc[p].chunks[Len(proc[p].embeddings) + 1]))

\* IngestCollect that leaves a mock vector out
IngestCollectSkipsMock(p, c) ==
    /\ NoneDone
    /\ proc[p].op = "ingest" /\ proc[p].pc = "embed"
    /\ call[c].pc = "done" /\ OwnCall(c)
    /\ LET embeddings == IF call[c].result.src = "mock" THEN proc[p].embeddings
                         ELSE Append(proc[p].embeddings, call[c].result)
       IN proc' = [proc EXCEPT ![p] =
             [@ EXCEPT !.embeddings = embeddings,
                       !.pc = IF Len(embeddings) + 1 > Len(proc[p].chunks)
                                 \/ call[c].result.src = "mock"
                              THEN "create" ELSE "embed"]]
    /\ call' = [call EXCEPT ![c] = CallIdle]
    /\ UNCHANGED <<docs, nextId, index, chroma, deletedBot>>
    /\ UNCHANGED <<now, genAI, embeddingCache, lastEmbeddingCall, quotaExceeded,
                   quotaResetTime, upstreamStartedAt, rateLimited, mocked>>
    /\ UNCHANGED chunkVars

\* the call returns to the loop: embeddings.push(embedding), and after the
\* last chunk DocumentModel.create is called
IngestCollect(p, c) ==
    /\ NoneDone
    /\ proc[p].op = "ingest" /\ proc[p].pc = "embed"
    /\ call[c].pc = "done" /\ OwnCall(c)
    /\ LET embeddings == Append(proc[p].embeddings, call[c].result)
       IN proc' = [proc EXCEPT ![p] =
             [@ EXCEPT !.embeddings = embeddings,
                       !.pc = IF Len(embeddings) >= Len(proc[p].chunks)
                              THEN "create" ELSE "embed"]]
    /\ call' = [call EXCEPT ![c] = CallIdle]
    /\ UNCHANGED <<docs, nextId, index, chroma, deletedBot>>
    /\ UNCHANGED <<now, genAI, embeddingCache, lastEmbeddingCall, quotaExceeded,
                   quotaResetTime, upstreamStartedAt, rateLimited, mocked>>
    /\ UNCHANGED chunkVars

\* DocumentModel.create answers or throws; on success collection.add is
\* called when the index is available
IngestCreate(p, dbOk) ==
    /\ NoneDone
    /\ NoCallDone
    /\ proc[p].op = "ingest" /\ proc[p].pc = "create"
    /\ LET kind == KindOf(proc[p].filename)
           d == nextId
           rec == DocumentRecord(proc[p].botId, proc[p].userId, kind, proc[p].chunks)
       IN IF ~dbOk \/ FileTypeOf(kind) \notin FileTypeEnum
          THEN /\ proc' = [proc EXCEPT ![p] =
                      [@ EXCEPT !.pc = "done", !.outcome = "raised", !.path = "create"]]
               /\ UNCHANGED <<docs, nextId>>
          ELSE /\ docs' = docs @@ (d :> rec)
               /\ nextId' = nextId + 1
               /\ proc' = [proc EXCEPT ![p] =
                      [@ EXCEPT !.docId = d,
                                !.pc = IF ensureCollection THEN "add" ELSE "done",
                                !.outcome = IF ensureCollection THEN "none" ELSE "ok",
                                !.path = IF ensureCollection THEN "none" ELSE "skipped"]]
    /\ UNCHANGED <<index, chroma, deletedBot>>
    /\ UNCHANGED embedVars
    /\ UNCHANGED chunkVars

-----------------------------------------------------------------------------
(* RecursiveCharacterTextSplitter.splitText, one loop iteration per step *)

maxIterations == 1000

MaxTextLen == 4     \* characters of a text handed to splitText
MaxChunkSize == 3   \* largest chunkSize and chunkOverlap of a splitter

\* A text is the sequence of its characters; the i-th character is written
\* i, so that a chunk shows which positions of the text it holds.
SplitTexts == {[i \in 1..n |-> i] : n \in 0..MaxTextLen}

Max(a, b) == IF a > b THEN a ELSE b

\* how String.prototype.slice reads one of its bounds
SliceIndex(i, len) == IF i < 0 THEN Max(len + i, 0) ELSE Min(i, len)

\* text.slice(start, end)
Slice(text, start, end) ==
    LET from == SliceIndex(start, Len(text))
        to == SliceIndex(end, Len(text))
    IN IF from < to THEN SubSeq(text, from + 1, to) ELSE <<>>

\* LoopContinues with the cap tested one iteration late
LoopContinuesLate(start, len, iterationCount) ==
    start < len /\ iterationCount <= maxIterations

\* while (start < text.length && iterationCount < maxIterations)
LoopContinues(start, len, iterationCount) ==
    start < len /\ iterationCount < maxIterations

\* NextStart without the overlap
NextStartNoOverlap(end, chunkOverlap) == end

\* start = end - this.chunkOverlap
NextStart(end, chunkOverlap) == end - chunkOverlap

\* no splitText call
SplitIdle ==
    [pc |-> "idle", text |-> <<>>, chunkSize |-> 1, chunkOverlap |-> 0,
     start |-> 0, iterationCount |-> 0, chunks |-> <<>>]

DedupIdle == [pc |-> "idle", rawChunks |-> <<>>, uniqueChunks |-> <<>>]

\* no fallbackChunking call
FallbackIdle == [pc |-> "idle", len |-> 0, start |-> 0, chunks |-> <<>>]

ChunkInit ==
    /\ split = SplitIdle
    /\ dedup = DedupIdle
    /\ fallback = FallbackIdle

\* splitText is called on a splitter built with (chunkSize, chunkOverlap)
splitText(text, chunkSize, chunkOverlap) ==
    /\ split.pc = "idle"
    /\ split' = [SplitIdle EXCEPT !.pc = "loop", !.text = text,
                                  !.chunkSize = chunkSize,
                                  !.chunkOverlap = chunkOverlap]
    /\ UNCHANGED <<dedup, fallback>>
    /\ UNCHANGED storeVars
    /\ UNCHANGED embedVars

\* the loop test and, when it passes, one iteration of the loop body
SplitIterate ==
    /\ split.pc = "loop"
    /\ LET len == Len(split.text)
           end == Min(split.start + split.chunkSize, len)
           chunk == Slice(split.text, split.start, end)
           pushed == IF Len(chunk) > 0 THEN Append(split.chunks, chunk)
                     ELSE split.chunks
           start1 == NextStart(end, split.chunkOverlap)
           noProgress == start1 <= end - split.chunkSize /\ end < len
           start2 == IF noProgress THEN NextStart(end, split.chunkOverlap) ELSE start1
           break1 == ~noProgress /\ end >= len
           break2 == start2 + split.chunkSize > len /\ end >= len
       IN IF ~LoopContinues(split.start, len, split.iterationCount)
          THEN split' = [split EXCEPT !.pc = "done"]
          ELSE split' = [split EXCEPT
                            !.iterationCount = @ + 1,
                            !.chunks = pushed,
                            !.start = start2,
                            !.pc = IF break1 \/ break2 THEN "done" ELSE "loop"]
    /\ UNCHANGED <<dedup, fallback>>
    /\ UNCHANGED storeVars
    /\ UNCHANGED embedVars

\* return chunks
SplitReturn ==
    /\ split.pc = "done"
    /\ split' = SplitIdle
    /\ UNCHANGED <<dedup, fallback>>
    /\ UNCHANGED storeVars
    /\ UNCHANGED embedVars

-----------------------------------------------------------------------------
(* The deduplication loop of chunkText, on strings of characters *)

MinChunkLength == 50
SignatureLength == 100

MaxChunks == 3      \* raw chunks handed to the deduplication loop

\* the string of n characters c
Repeat(c, n) == [i \in 1..n |-> c]

IsSpace(c) == c = " "

RECURSIVE TrimStart(_)
TrimStart(s) ==
    IF s = <<>> \/ ~IsSpace(Head(s)) THEN s ELSE TrimStart(Tail(s))

RECURSIVE TrimEnd(_)
TrimEnd(s) ==
    IF s = <<>> \/ ~IsSpace(s[Len(s)]) THEN s ELSE TrimEnd(SubSeq(s, 1, Len(s) - 1))

\* String.prototype.trim
Trim(s) == TrimEnd(TrimStart(s))

\* String.prototype.toLowerCase on the letters used here
ToLowerCase(s) ==
    [i \in 1..Len(s) |-> IF s[i] = "A" THEN "a" ELSE s[i]]

\* s.replace(/\s+/g, '')
StripSpaces(s) == SelectSeq(s, LAMBDA c : ~IsSpace(c))

\* s.substring(0, n)
Substring(s, n) == SubSeq(s, 1, Min(n, Len(s)))

\* The raw chunks the loop is run on: short and long ones, padded ones,
\* pairs that differ by case, by inner whitespace, or beyond 100 characters.
RawChunkStrings ==
    { <<>>,
      Repeat("a", 49),
      Repeat("a", 50),
      <<" ">> \o Repeat("a", 50) \o <<" ">>,
      <<" ", " ">> \o Repeat("a", 48),
      Repeat("A", 50),
      Repeat("a", 25) \o <<" ">> \o Repeat("a", 25),
      Repeat("a", 100) \o <<"x">>,
      Repeat("a", 100) \o <<"y">> }

RawChunkLists == UNION {[1..n -> RawChunkStrings] : n \in 0..MaxChunks}

\* TooShort with the length of the untrimmed chunk
TooShortRaw(chunk, trimmedChunk) == Len(chunk) < MinChunkLength

\* trimmedChunk.length < 50
TooShort(chunk, trimmedChunk) == Len(trimmedChunk) < MinChunkLength

\* Signature over the whole chunk
SignatureWholeChunk(trimmedChunk) == StripSpaces(ToLowerCase(trimmedChunk))

\* trimmedChunk.substring(0, 100).toLowerCase().replace(/\s+/g, '')
Signature(trimmedChunk) ==
    StripSpaces(ToLowerCase(Substring(trimmedChunk, SignatureLength)))

RECURSIVE DedupeLoop(_, _, _)
\* for (const chunk of rawChunks) { ... }
DedupeLoop(rawChunks, uniqueChunks, seenContent) ==
    IF rawChunks = <<>> THEN uniqueChunks
    ELSE LET chunk == Head(rawChunks)
             trimmedChunk == Trim(chunk)
             signature == Signature(trimmedChunk)
         IN IF TooShort(chunk, trimmedChunk)
            THEN DedupeLoop(Tail(rawChunks), uniqueChunks, seenContent)
            ELSE IF signature \notin seenContent
            THEN DedupeLoop(Tail(rawChunks), Append(uniqueChunks, trimmedChunk),
                            seenContent \cup {signature})
            ELSE DedupeLoop(Tail(rawChunks), uniqueChunks, seenContent)

\* uniqueChunks after the loop
UniqueChunks(rawChunks) == DedupeLoop(rawChunks, <<>>, {})

\* the deduplication loop runs on rawChunks
DeduplicateChunks(rawChunks) ==
    /\ dedup.pc = "idle"
    /\ dedup' = [pc |-> "done", rawChunks |-> rawChunks,
                 uniqueChunks |-> UniqueChunks(rawChunks)]
    /\ UNCHANGED <<split, fallback>>
    /\ UNCHANGED storeVars
    /\ UNCHANGED embedVars

\* return uniqueChunks
DedupeReturn ==
    /\ dedup.pc = "done"
    /\ dedup' = DedupIdle
    /\ UNCHANGED <<split, fallback>>
    /\ UNCHANGED storeVars
    /\ UNCHANGED embedVars

-----------------------------------------------------------------------------
(* fallbackChunking: the loop test and the loop body, one step each *)

fallbackChunkSize == 1000
fallbackOverlap == 100
fallbackMinLength == 50

MaxFallbackLen == 1200      \* characters of a text handed to fallbackChunking
MaxFallbackChunks == 3      \* chunks the list shows; further pushes are not recorded

\* A text is given by its length: it is a string of len characters that
\* are no whitespace, so that trim() returns every slice as it is.  A chunk
\* is <<from, to>>: the characters from + 1 .. to of the text.
FallbackLens == 0..MaxFallbackLen

\* text.slice(start, end).trim()
FallbackChunk(len, start, end) ==
    LET from == SliceIndex(start, len)
        to == SliceIndex(end, len)
    IN IF from < to THEN <<from, to>> ELSE <<0, 0>>

\* chunk.length
ChunkLength(chunk) == chunk[2] - chunk[1]

\* if (chunk.length > 50)
PushTest(chunk) == ChunkLength(chunk) > fallbackMinLength

\* fallbackChunking(text) is entered: chunks = [], start = 0
fallbackChunking(len) ==
    /\ fallback.pc = "idle"
    /\ fallback' = [FallbackIdle EXCEPT !.pc = "test", !.len = len]
    /\ UNCHANGED <<split, dedup>>
    /\ UNCHANGED storeVars
    /\ UNCHANGED embedVars

\* while (start < text.length)
FallbackTest ==
    /\ fallback.pc = "test"
    /\ fallback' = [fallback EXCEPT
                      !.pc = IF fallback.start < fallback.len THEN "body" ELSE "done"]
    /\ UNCHANGED <<split, dedup>>
    /\ UNCHANGED storeVars
    /\ UNCHANGED embedVars

\* the loop body: slice, trim, push, start = end - overlap, and the break
FallbackBody ==
    /\ fallback.pc = "body"
    /\ LET end == Min(fallback.start + fallbackChunkSize, fallback.len)
           chunk == FallbackChunk(fallback.len, fallback.start, end)
           pushed == IF PushTest(chunk) /\ Len(fallback.chunks) < MaxFallbackChunks
                     THEN Append(fallback.chunks, chunk)
                     ELSE fallback.chunks
           start == end - fallbackOverlap
       IN fallback' = [fallback EXCEPT
                          !.chunks = pushed,
                          !.start = start,
                          !.pc = IF start >= fallback.len THEN "done" ELSE "test"]
    /\ UNCHANGED <<split, dedup>>
    /\ UNCHANGED storeVars
    /\ UNCHANGED embedVars

\* return chunks
FallbackReturn ==
    /\ fallback.pc = "done"
    /\ fallback' = FallbackIdle
    /\ UNCHANGED <<split, dedup>>
    /\ UNCHANGED storeVars
    /\ UNCHANGED embedVars

-----------------------------------------------------------------------------
(* Specifications *)

Next ==
    \/ \E ok \in BOOLEAN : Initialize(ok)
    \/ \E p \in Procs, kind \in {"pdf", "url"}, b \in Bots, xok \in BOOLEAN,
          text \in Texts, dbOk \in BOOLEAN : Ingest(p, kind, b, xok, text, dbOk)
    \/ \E p \in Procs, ok \in BOOLEAN : IndexAdd(p, ok)
    \/ \E p \in Procs, b \in Bots, k \in TopKs, dbOk \in BOOLEAN : Search(p, b, k, dbOk)
    \/ \E p \in Procs, ok \in BOOLEAN :
         \E hits \in QueryHits(proc[p].topK * 2) : IndexQuery(p, ok, hits)
    \/ \E p \in Procs, d \in DocIds, u \in Users, dbOk \in BOOLEAN : Delete(p, d, u, dbOk)
    \/ \E p \in Procs, ok \in BOOLEAN : IndexDelete(p, ok)
    \/ \E p \in Procs : Return(p)

Init == StoreInit /\ EmbedInit /\ ChunkInit /\ genAI

Spec == Init /\ [][Next]_vars

NextEmbed ==
    \/ \E c \in Callers, text \in EmbedTexts : generateEmbedding(c, text)
    \/ \E c \in Callers : Wake(c)
    \/ \E c \in Callers, ans \in UpstreamAnswers : UpstreamAnswer(c, ans)
    \/ \E c \in Callers : EmbedReturn(c)
    \/ Tick

InitEmbed == StoreInit /\ EmbedInit /\ ChunkInit

SpecEmbed == InitEmbed /\ [][NextEmbed]_vars

NextSingle ==
    \/ \E c \in Callers, text \in EmbedTexts : generateEmbeddingAlone(c, text)
    \/ \E c \in Callers : Wake(c)
    \/ \E c \in Callers, ans \in UpstreamAnswers : UpstreamAnswer(c, ans)
    \/ \E c \in Callers : EmbedReturn(c)
    \/ Tick

SpecSingle == InitEmbed /\ [][NextSingle]_vars

NextIngest ==
    \/ \E ok \in BOOLEAN : Initialize(ok)
    \/ \E p \in Procs, kind \in {"pdf", "url"}, b \in Bots, xok \in BOOLEAN,
          text \in Texts : IngestBegin(p, kind, b, xok, text)
    \/ \E p \in Procs, c \in Callers : IngestEmbed(p, c)
    \/ \E p \in Procs, c \in Callers : IngestCollect(p, c)
    \/ \E p \in Procs, dbOk \in BOOLEAN : IngestCreate(p, dbOk)
    \/ \E p \in Procs, ok \in BOOLEAN : IndexAdd(p, ok)
    \/ \E p \in Procs : Return(p)
    \/ \E c \in Callers : Wake(c)
    \/ \E c \in Callers, ans \in UpstreamAnswers : UpstreamAnswer(c, ans)
    \/ Tick

SpecIngest == InitEmbed /\ [][NextIngest]_vars

NextSplit ==
    \/ \E text \in SplitTexts, size \in 1..MaxChunkSize, overlap \in 0..MaxChunkSize :
         splitText(text, size, overlap)
    \/ SplitIterate
    \/ SplitReturn

\* the loop of splitText is synchronous code: it runs until it returns
SpecSplit == Init /\ [][NextSplit]_vars /\ WF_vars(SplitIterate)

NextDedupe ==
    \/ \E rawChunks \in RawChunkLists : DeduplicateChunks(rawChunks)
    \/ DedupeReturn

SpecDedupe == Init /\ [][NextDedupe]_vars

NextFallback ==
    \/ \E len \in FallbackLens : fallbackChunking(len)
    \/ FallbackTest
    \/ FallbackBody
    \/ FallbackReturn

\* the loop of fallbackChunking is synchronous code: it runs until it returns
SpecFallback ==
    Init /\ [][NextFallback]_vars /\ WF_vars(FallbackTest) /\ WF_vars(FallbackBody)

\* topK values of the retrievals run one at a time
WideTopKs == 1..(MaxTopK + 1)

\* no handler is in flight
Alone == \A q \in Procs : proc[q].pc = "idle"

IngestAlone(p, kind, botId, extractOk, text, dbOk) ==
    Alone /\ Ingest(p, kind, botId, extractOk, text, dbOk)

SearchAlone(p, botId, topK, dbOk) ==
    Alone /\ Search(p, botId, topK, dbOk)

DeleteAlone(p, documentId, userId, dbOk) ==
    Alone /\ Delete(p, documentId, userId, dbOk)

NextSearch ==
    \/ \E ok \in BOOLEAN : Initialize(ok)
    \/ \E p \in Procs, kind \in {"pdf", "url"}, b \in Bots, xok \in BOOLEAN,
          text \in Texts, dbOk \in BOOLEAN : IngestAlone(p, kind, b, xok, text, dbOk)
    \/ \E p \in Procs, ok \in BOOLEAN : IndexAdd(p, ok)
    \/ \E p \in Procs, b \in Bots, k \in WideTopKs, dbOk \in BOOLEAN :
         SearchAlone(p, b, k, dbOk)
    \/ \E p \in Procs, ok \in BOOLEAN :
         \E hits \in QueryHits(proc[p].topK * 2) : IndexQuery(p, ok, hits)
    \/ \E p \in Procs, d \in DocIds, u \in Users, dbOk \in BOOLEAN :
         DeleteAlone(p, d, u, dbOk)
    \/ \E p \in Procs, ok \in BOOLEAN : IndexDelete(p, ok)
    \/ \E p \in Procs : Return(p)

SpecSearch == Init /\ [][NextSearch]_vars

-----------------------------------------------------------------------------
(* Properties *)

\* the bot a document was created for, also after its deletion
BotOf(d) == IF d \in DOMAIN docs THEN docs[d].botId ELSE deletedBot[d]

\* a search that has returned
SearchDone(p) == proc[p].op = "search" /\ proc[p].pc = "done"

\* a handler between its first store call and its return
InFlight(p) == proc[p].pc \notin {"idle", "done"}

\* C1: every chunk a finished searchDocuments(A, ..) returns comes from a
\* document that was created for bot A (and is processed while it exists),
\* on the Vector Index path and on the fallback path alike, whatever other
\* bots' or deleted documents' entries the Vector Index answered with.
C1_ScopedToBot ==
    \A p \in Procs : SearchDone(p) =>
        \A i \in 1..Len(proc[p].results) :
            LET d == proc[p].results[i].documentId
            IN /\ d \in DOMAIN docs \cup DOMAIN deletedBot
               /\ BotOf(d) = proc[p].botId
               /\ d \in DOMAIN docs => docs[d].processed

\* a search answered by the Vector Index with one hit of its own bot and one
\* hit of another bot's document
C1_Witness ==
    \E p \in Procs :
        /\ SearchDone(p) /\ proc[p].path = "vector" /\ proc[p].results # <<>>
        /\ Cardinality(index) = 2
        /\ \E e \in index : BotOf(e.documentId) # proc[p].botId

\* C2: a search that found the index connected and got no hit surviving the
\* filter (foreign hits only, empty index, or a failed query) still returns
\* stored chunks when a document it found has a chunk.
C2_FallbackWhenNothingUsable ==
    \A p \in Procs :
        (SearchDone(p) /\ proc[p].path \in {"vector", "queryFailed"}
                       /\ proc[p].results = <<>>)
        => \A d \in proc[p].documentIds \cap DOMAIN docs : docs[d].chunks = <<>>

\* a stored document with chunks that has no Vector Index entry although its
\* ingest is over: its Vector Index write failed or was skipped
Unindexed(d) ==
    /\ d \in DOMAIN docs /\ docs[d].chunks # <<>>
    /\ \A e \in index : e.documentId # d
    /\ \A q \in Procs : ~(proc[q].op = "ingest" /\ proc[q].pc = "add" /\ proc[q].docId = d)

\* C3: a document whose Vector Index write failed or was skipped stays
\* processed, and every search of its bot that found it returns a chunk of
\* it unless topK other chunks fill the result, whether or not the index is
\* connected at retrieval time.
C3_RetrievableWithoutIndex ==
    \A p \in Procs :
        (SearchDone(p) /\ proc[p].path \in {"vector", "queryFailed", "fallback"})
        => \A d \in proc[p].documentIds :
              Unindexed(d) =>
                /\ docs[d].processed
                /\ \/ \E i \in 1..Len(proc[p].results) : proc[p].results[i].documentId = d
                   \/ Len(proc[p].results) = proc[p].topK

\* C4: once deleteDocument(d, owner) has returned true and no ingest or
\* delete is in flight, the Vector Index holds no entry of d.
C4_DeleteInvalidatesIndex ==
    (\A p \in Procs : proc[p].op \in {"ingest", "delete"} => ~InFlight(p))
    => \A d \in DOMAIN deletedBot : \A e \in index : e.documentId # d

\* every stored record is whole
C5_RecordsWhole ==
    \A d \in DOMAIN docs :
        /\ docs[d].totalChunks = Len(docs[d].chunks)
        /\ \A i \in 1..Len(docs[d].chunks) : docs[d].chunks[i].chunkIndex = i - 1
        /\ docs[d].processed

\* a record appears in one step, with all its chunks, from an ingest that
\* holds one embedding per chunk, the i-th made from the i-th chunk
C5_CreatedAfterEmbedding ==
    \A d \in DocIds :
        (d \notin DOMAIN docs /\ d \in DOMAIN docs')
        => \E p \in Procs :
              /\ proc'[p].op = "ingest" /\ proc'[p].docId = d
              /\ Len(proc'[p].embeddings) = Len(docs'[d].chunks)
              /\ \A i \in 1..Len(docs'[d].chunks) :
                    proc'[p].embeddings[i].of = docs'[d].chunks[i].content

\* C5: every Document record in the Metadata Store has totalChunks = number
\* of chunks, chunkIndex i on its i-th chunk (from 0) and processed = true,
\* and it is created in one step after an embedding was obtained for every
\* chunk.
C5_WholeRecords == []C5_RecordsWhole /\ [][C5_CreatedAfterEmbedding]_vars

\* a stored document with two chunks
C5_Witness == \E d \in DOMAIN docs : Len(docs[d].chunks) = 2

\* the step of p is an ingest whose DocumentModel.create failed
CreateFailed(p) ==
    /\ proc[p].pc = "idle"
    /\ proc'[p].op = "ingest" /\ proc'[p].path = "create"

\* C6: an ingest whose DocumentModel.create fails raises the error to its
\* caller, attempts no Vector Index write and leaves no Document record.
C6_CreateFailureAborts ==
    [][\A p \in Procs : CreateFailed(p) =>
          /\ proc'[p].pc = "done" /\ proc'[p].outcome = "raised"
          /\ proc'[p].docId = 0
          /\ docs' = docs /\ nextId' = nextId /\ index' = index]_vars

\* an ingest that raised the error of DocumentModel.create
C6_Witness ==
    \E p \in Procs :
        /\ proc[p].op = "ingest" /\ proc[p].pc = "done"
        /\ proc[p].path = "create" /\ proc[p].outcome = "raised"
        /\ proc[p].chunks # <<>>

\* the step is the start of a generateEmbedding call of caller c
CallStarts(c) == call[c].pc = "idle" /\ call'[c].pc # "idle"

\* the call of c goes on to embedContent (at once or when its timer fires)
GoesUpstream(c) == call'[c].pc \in {"waiting", "upstream"}

\* C7 (one caller at a time): after a rate-limit error, a call started
\* before the recorded reset time does not invoke the upstream service and,
\* when its text is not cached, returns a mock vector; an uncached call
\* started at or after the reset time invokes the upstream service.
C7_QuotaWindow ==
    [][\A c \in Callers :
          (CallStarts(c) /\ rateLimited.seen) =>
             LET cached == CacheKey(call'[c].text) \in DOMAIN embeddingCache
             IN IF now < rateLimited.reset
                THEN /\ ~GoesUpstream(c)
                     /\ upstreamStartedAt' = upstreamStartedAt
                     /\ ~cached => call'[c].result.src = "mock"
                ELSE ~cached => GoesUpstream(c)]_vars

\* inside the window of a rate-limit error a call got a mock vector
C7_Witness ==
    \E c \in Callers :
        /\ call[c].pc = "done" /\ call[c].path = "quota"
        /\ rateLimited.seen /\ now < rateLimited.reset

\* C8: two invocations of the upstream embedding service start at least
\* embeddingDelay apart, for any interleaving of callers.
C8_UpstreamSpacing ==
    [][\A c \in Callers :
          (call[c].pc # "upstream" /\ call'[c].pc = "upstream")
          => (upstreamStartedAt = 0 \/ now - upstreamStartedAt >= embeddingDelay)]_vars

\* chunks stored for the bot in documents with an id below d
ChunksBefore(botId, d) ==
    LET before == {x \in DOMAIN docs : x < d /\ docs[x].botId = botId /\ docs[x].processed}
        Sum[S \in SUBSET before] ==
            IF S = {} THEN 0
            ELSE LET x == CHOOSE y \in S : TRUE
                 IN Len(docs[x].chunks) + Sum[S \ {x}]
    IN Sum[before]

C10_AlwaysAVector ==
    \A c \in Callers :
        call[c].pc = "done" =>
            /\ call[c].outcome = "returned"
            /\ call[c].result.dim = 768
            /\ call[c].result.src \in {"mock", "upstream"}

\* the empty string got a mock vector after an upstream error
C10_Witness ==
    \E c \in Callers :
        /\ call[c].pc = "done" /\ call[c].text = <<"", "">>
        /\ call[c].path = "error" /\ call[c].result.dim = 768

\* an ingest past its embedding loop holds one embedding per chunk
OnePerChunk ==
    \A p \in Procs :
        (proc[p].op = "ingest" /\ proc[p].pc \in {"create", "add", "done"}
            /\ proc[p].path # "extract")
        => Len(proc[p].embeddings) = Len(proc[p].chunks)

\* a step of an ingest inside its embedding loop stays in the loop or goes
\* on to DocumentModel.create, and each returning call adds one embedding
LoopOnlyLeadsToCreate ==
    \A p \in Procs :
        (proc[p].op = "ingest" /\ proc[p].pc = "embed") =>
            /\ proc'[p].op = "ingest" /\ proc'[p].pc \in {"embed", "create"}
            /\ proc'[p].outcome # "raised"
            /\ proc'[p].chunks = proc[p].chunks
            /\ \/ proc'[p].embeddings = proc[p].embeddings
               \/ Len(proc'[p].embeddings) = Len(proc[p].embeddings) + 1
            /\ proc'[p].pc = "create"
                 <=> Len(proc'[p].embeddings) = Len(proc[p].chunks)
            /\ \A c \in Callers :
                  (OwnCall(c) /\ call[c].pc = "upstream" /\ call'[c].pc # "upstream")
                  => (call'[c].pc = "done" /\ call'[c].outcome = "returned")

\* C11: whatever the upstream embedding service answers for each chunk
\* (vector, rate-limit error, other error, or no provider configured), an
\* ingest whose extraction succeeded leaves its embedding loop only towards
\* DocumentModel.create, with one embedding per chunk; no embedding outcome
\* makes it raise.
C11_EmbeddingNeverAborts == []OnePerChunk /\ [][LoopOnlyLeadsToCreate]_vars

\* a stored document of two chunks whose first embedding is a mock vector
\* and whose second one came from the upstream service
C11_Witness ==
    \E p \in Procs :
        /\ proc[p].op = "ingest" /\ proc[p].docId \in DOMAIN docs
        /\ Len(proc[p].embeddings) = 2
        /\ proc[p].embeddings[1].src = "mock"
        /\ proc[p].embeddings[2].src = "upstream"

\* an ingest without extracted text is finished, has raised, and holds
\* neither embeddings nor a document id
FailedExtractionIsOver ==
    \A p \in Procs :
        (proc[p].op = "ingest" /\ proc[p].text = <<>>)
        => /\ proc[p].pc = "done" /\ proc[p].outcome = "raised"
           /\ proc[p].embeddings = <<>> /\ proc[p].docId = 0

\* the step in which an extraction fails touches no store and calls no
\* embedding
FailedExtractionStep ==
    \A p \in Procs :
        (proc[p].pc = "idle" /\ proc'[p].op = "ingest" /\ proc'[p].text = <<>>)
        => /\ docs' = docs /\ nextId' = nextId /\ index' = index
           /\ call' = call /\ upstreamStartedAt' = upstreamStartedAt
           /\ lastEmbeddingCall' = lastEmbeddingCall
           /\ embeddingCache' = embeddingCache

\* C12: an ingest whose extraction fails (the parser or the URL extraction
\* throws, or the text is empty or blank) ends with an error and persists
\* nothing: no Document record, no Vector Index entry, no embedding call.
C12_ExtractionFailureAborts ==
    []FailedExtractionIsOver /\ [][FailedExtractionStep]_vars

\* a PDF ingest that raised on blank text while a document was stored
C12_Witness ==
    \E p \in Procs :
        /\ proc[p].op = "ingest" /\ proc[p].pc = "done"
        /\ proc[p].path = "extract" /\ proc[p].outcome = "raised"
        /\ docs # <<>>

\* the step is one iteration of the splitText loop that is followed by
\* another iteration
IteratesAgain ==
    /\ split.pc = "loop" /\ split'.pc = "loop"
    /\ split'.iterationCount = split.iterationCount + 1

\* C13: with chunkOverlap >= chunkSize, the window start of splitText grows
\* strictly from each loop iteration to the next one.
C13_ForwardProgress ==
    [][(IteratesAgain /\ split.chunkOverlap >= split.chunkSize)
          => split'.start > split.start]_vars

\* the windows [k * step, min(k * step + chunkSize, |T|)) up to the first
\* one that reaches the end of T
ExpectedWindows(text, chunkSize, chunkOverlap) ==
    LET step == chunkSize - chunkOverlap
        len == Len(text)
        last == CHOOSE k \in 0..len :
                    /\ k * step + chunkSize >= len
                    /\ \A j \in 0..(k - 1) : j * step + chunkSize < len
    IN IF len = 0 THEN <<>>
       ELSE [i \in 1..(last + 1) |->
               SubSeq(text, (i - 1) * step + 1, Min((i - 1) * step + chunkSize, len))]

RECURSIVE Reassemble(_, _, _)
\* the chunks from the k-th on, each but the first of all without its first
\* chunkOverlap characters, concatenated
Reassemble(chunks, chunkOverlap, k) ==
    IF k > Len(chunks) THEN <<>>
    ELSE (IF k = 1 THEN chunks[k]
          ELSE SubSeq(chunks[k], chunkOverlap + 1, Len(chunks[k])))
         \o Reassemble(chunks, chunkOverlap, k + 1)

WithinCap ==
    /\ split.iterationCount <= maxIterations
    /\ Len(split.chunks) <= split.iterationCount
    /\ split.pc \in {"idle", "loop", "done"}

\* C15: splitText returns for every text and every (chunkSize, chunkOverlap),
\* also with chunkOverlap >= chunkSize, after at most 1000 loop iterations,
\* with the at most 1000 chunks collected so far and without an error.
C15_CappedLoop == []WithinCap /\ ((split.pc = "loop") ~> (split.pc = "done"))

\* a call that stopped at the cap with 1000 chunks
C15_Witness ==
    /\ split.pc = "done" /\ split.iterationCount = maxIterations
    /\ Len(split.chunks) = maxIterations
    /\ split.chunkOverlap >= split.chunkSize

\* C16: the deduplication step is idempotent: run on its own output, it
\* returns that output unchanged.
C16_DedupeIdempotent ==
    dedup.pc = "done" => UniqueChunks(dedup.uniqueChunks) = dedup.uniqueChunks

\* a deduplication that dropped a short chunk and a duplicate, and trimmed
\* the chunk it kept
C16_Witness ==
    /\ dedup.pc = "done"
    /\ Len(dedup.rawChunks) = 3 /\ Len(dedup.uniqueChunks) = 1
    /\ dedup.uniqueChunks[1] # dedup.rawChunks[1]
    /\ \E i \in 1..3 : Len(Trim(dedup.rawChunks[i])) < MinChunkLength
    /\ \E i \in 1..3 : dedup.rawChunks[i] = <<" ">> \o Repeat("a", 50) \o <<" ">>

\* the first 100 characters of a chunk
First100(t) == SubSeq(t, 1, IF Len(t) < 100 THEN Len(t) ELSE 100)

\* the lowercased first 100 characters of a trimmed chunk, whitespace removed
SignatureOf(t) == StripSpaces(ToLowerCase(First100(t)))

\* position i of the raw chunks is the first long chunk with its signature
FirstOfSignature(rawChunks, i) ==
    /\ Len(Trim(rawChunks[i])) >= 50
    /\ \A j \in 1..(i - 1) :
          Len(Trim(rawChunks[j])) >= 50
          => SignatureOf(Trim(rawChunks[j])) # SignatureOf(Trim(rawChunks[i]))

RECURSIVE FirstOccurrences(_, _)
\* the trimmed chunks at the positions from i on that are first of their
\* signature, in the order of the raw chunks
FirstOccurrences(rawChunks, i) ==
    IF i > Len(rawChunks) THEN <<>>
    ELSE (IF FirstOfSignature(rawChunks, i) THEN <<Trim(rawChunks[i])>> ELSE <<>>)
         \o FirstOccurrences(rawChunks, i + 1)

\* C17: the deduplication output is the subsequence, in the original order,
\* of the trimmed chunks of length >= 50 that are the first chunk of length
\* >= 50 with their signature: no chunk under 50 characters is in it, no two
\* of its chunks share a signature, and two chunks that differ only beyond
\* their first 100 characters are never both in it (the earlier one is the
\* one kept when it is the first of its signature).
C17_FirstPerSignature ==
    dedup.pc = "done" =>
        LET raw == dedup.rawChunks
            out == dedup.uniqueChunks
        IN /\ out = FirstOccurrences(raw, 1)
           /\ \A k \in 1..Len(out) : Len(out[k]) >= 50
           /\ \A k, l \in 1..Len(out) :
                 k # l => SignatureOf(out[k]) # SignatureOf(out[l])
           /\ \A i, j \in 1..Len(raw) :
                 (/\ i < j
                  /\ Len(Trim(raw[i])) >= 50 /\ Len(Trim(raw[j])) >= 50
                  /\ Trim(raw[i]) # Trim(raw[j])
                  /\ First100(Trim(raw[i])) = First100(Trim(raw[j])))
                 => /\ \A k, l \in 1..Len(out) :
                          ~(out[k] = Trim(raw[i]) /\ out[l] = Trim(raw[j]))
                    /\ FirstOfSignature(raw, i)
                         => /\ \E k \in 1..Len(out) : out[k] = Trim(raw[i])
                            /\ \A k \in 1..Len(out) : out[k] # Trim(raw[j])

\* two chunks that differ only in their 101st character, reduced to the
\* first, after a chunk with another signature
C17_Witness ==
    /\ dedup.pc = "done"
    /\ dedup.rawChunks = <<Repeat("A", 50), Repeat("a", 100) \o <<"x">>,
                           Repeat("a", 100) \o <<"y">>>>
    /\ dedup.uniqueChunks = <<Repeat("A", 50), Repeat("a", 100) \o <<"x">>>>

\* a finished search holds at most topK results, best score first
AtMostTopKBestFirst ==
    \A p \in Procs : SearchDone(p) =>
        /\ Len(proc[p].results) <= proc[p].topK
        /\ \A i, j \in 1..Len(proc[p].results) :
              i < j => proc[p].results[i].score >= proc[p].results[j].score

\* the results of a search answered by the Vector Index are hits of the
\* bot's documents, each a different entry of the index scored 1 - distance,
\* nearest first; when fewer than topK come back although the index
\* answered with all its entries, no entry of the bot's documents is missing
NearestFirstOfBot ==
    \A p \in Procs :
        (proc[p].op = "search" /\ proc[p].pc = "query" /\ proc'[p].path = "vector")
        => LET r == proc'[p].results
               own == {e \in index : e.documentId \in proc[p].documentIds}
               hit(k) == {e \in own : /\ e.documentId = r[k].documentId
                                       /\ e.text = r[k].content}
           IN /\ \A k \in 1..Len(r) :
                    /\ hit(k) # {}
                    /\ r[k].distance \in Dists
                    /\ r[k].score = ScoreOne - r[k].distance
              /\ \A k, l \in 1..Len(r) :
                    k < l => /\ hit(k) # hit(l)
                             /\ r[k].distance <= r[l].distance
              /\ (Len(r) < proc[p].topK /\ Cardinality(index) <= 2 * proc[p].topK)
                    => \A e \in own : \E k \in 1..Len(r) : e \in hit(k)

\* C18: searchDocuments(bot, query, topK) returns at most topK results in
\* order of non-increasing score; on the Vector Index path each score is
\* 1 - distance of its hit and the order is the index's nearest-first order
\* restricted to the bot's documents.
C18_TopKBestFirst == []AtMostTopKBestFirst /\ [][NearestFirstOfBot]_vars

\* a search answered by the Vector Index with two results of different
\* scores while the index also holds an entry of another bot
C18_Witness ==
    \E p \in Procs :
        /\ SearchDone(p) /\ proc[p].path = "vector"
        /\ Len(proc[p].results) = 2
        /\ proc[p].results[1].score > proc[p].results[2].score
        /\ \E e \in index : BotOf(e.documentId) # proc[p].botId

\* the bot has no processed document in the Metadata Store
NoProcessedDocument(botId) ==
    ~\E d \in DOMAIN docs : docs[d].botId = botId /\ docs[d].processed

\* a search never holds an error for its caller, and one that failed on the
\* way (find threw, the query threw) returns the empty list
SearchNeverRaises ==
    \A p \in Procs :
        proc[p].op = "search" =>
            /\ proc[p].outcome # "raised"
            /\ proc[p].pc = "done" => proc[p].outcome = "ok"
            /\ (proc[p].pc = "done" /\ proc[p].path \in {"caught", "queryFailed", "nodocs"})
                  => proc[p].results = <<>>

\* a search for a bot without processed documents returns the empty list at
\* once, without a query to the Vector Index
EmptyWithoutQuery ==
    \A p \in Procs :
        (proc[p].pc = "idle" /\ proc'[p].op = "search"
            /\ NoProcessedDocument(proc'[p].botId))
        => /\ proc'[p].pc = "done" /\ proc'[p].outcome = "ok"
           /\ proc'[p].results = <<>>
           /\ proc'[p].path \in {"nodocs", "caught"}

\* C19: searchDocuments never raises: when the Metadata Store lookup or the
\* Vector Index query fails it returns a list (the empty one), and for a bot
\* without processed documents it returns the empty list without querying
\* the Vector Index.
C19_SearchNeverRaises == []SearchNeverRaises /\ [][EmptyWithoutQuery]_vars

\* a search for a bot without documents returned the empty list although
\* the Vector Index is connected and holds entries
C19_Witness ==
    \E p \in Procs :
        /\ SearchDone(p) /\ proc[p].path = "nodocs" /\ proc[p].results = <<>>
        /\ isConnected /\ index # {}

\* the answer of a Vector Index call never turns into an error of the
\* handler: the ingest goes on to return its document id, the delete true,
\* the search a list
IndexFailureContained ==
    \A p \in Procs :
        /\ (proc[p].pc = "add" /\ proc'[p].pc # "add")
              => /\ proc'[p].pc = "done" /\ proc'[p].outcome = "ok"
                 /\ proc'[p].docId = proc[p].docId /\ proc'[p].docId # 0
        /\ (proc[p].pc = "indexDelete" /\ proc'[p].pc # "indexDelete")
              => /\ proc'[p].pc = "done" /\ proc'[p].outcome = "ok"
                 /\ proc'[p].flag
        /\ (proc[p].pc = "query" /\ proc'[p].pc # "query")
              => /\ proc'[p].pc = "done" /\ proc'[p].outcome = "ok"
                 /\ proc'[p].path = "queryFailed" => proc'[p].results = <<>>
        /\ (proc[p].pc = "idle" /\ proc'[p].op = "ingest" /\ nextId' # nextId)
              => /\ proc'[p].docId = nextId /\ proc'[p].outcome # "raised"
                 /\ ~ensureCollection
                       => proc'[p].pc = "done" /\ proc'[p].outcome = "ok"
        /\ (proc[p].pc = "idle" /\ proc'[p].op = "delete" /\ docs' # docs)
              => /\ proc'[p].outcome # "raised"
                 /\ ~ensureCollection
                       => proc'[p].pc = "done" /\ proc'[p].outcome = "ok" /\ proc'[p].flag

\* what a finished handler returns after its Metadata Store write succeeded
ReturnsAfterStoreWrite ==
    \A p \in Procs :
        proc[p].pc = "done" =>
            /\ (proc[p].op = "ingest" /\ proc[p].docId # 0) => proc[p].outcome = "ok"
            /\ (proc[p].op = "delete" /\ proc[p].docId \in DOMAIN deletedBot
                   /\ proc[p].path \notin {"nomatch", "caught"})
                  => proc[p].outcome = "ok" /\ proc[p].flag

\* C20: no failure of a Vector Index operation reaches the caller:
\* addEmbeddings, searchSimilar and deleteDocument return normally when the
\* index is unavailable or the call throws, so an ingest whose
\* DocumentModel.create succeeded returns the document id and a delete whose
\* deleteOne succeeded returns true.
C20_IndexFailuresContained ==
    []ReturnsAfterStoreWrite /\ [][IndexFailureContained]_vars

\* an ingest returned its document id after collection.add threw, and the
\* document is stored
C20_Witness ==
    \E p \in Procs :
        /\ proc[p].op = "ingest" /\ proc[p].pc = "done"
        /\ proc[p].path = "addFailed" /\ proc[p].outcome = "ok"
        /\ proc[p].docId \in DOMAIN docs

\* the entries of the index that carry documentId d
EntriesOf(ix, d) == {e \in ix : e.documentId = d}

\* the entries of document d in ix are one per chunk of its record, entry i
\* with id d_chunk_i, chunkIndex i and the text of chunk i
OnePerRecordChunk(ix, d) ==
    LET n == docs[d].totalChunks
        own == EntriesOf(ix, d)
    IN /\ Cardinality(own) = n
       /\ {e.id : e \in own} = {<<d, i>> : i \in 0..(n - 1)}
       /\ \A e \in own :
            /\ e.id = <<d, e.chunkIndex>>
            /\ e.text = docs[d].chunks[e.chunkIndex + 1].content

\* the add of handler p succeeds: every entry carries the vector that the
\* generateEmbedding call for its chunk returned
IndexedInChunkOrder(p) ==
    LET d == proc[p].docId
    IN /\ OnePerRecordChunk(index', d)
       /\ \A e \in EntriesOf(index', d) :
            /\ e.embedding = proc[p].embeddings[e.chunkIndex + 1]
            /\ e.embedding.src \in {"upstream", "mock"}
            /\ e.embedding.src = "upstream" => e.embedding.of = ChunkText(e.text)

\* C21: after an ingest of document d with n chunks whose index write
\* succeeded, the index holds exactly n entries of d, with ids d_chunk_0 ..
\* d_chunk_(n-1); entry i carries chunkIndex i, the text of chunk i of the
\* record and the vector the embedding loop obtained for chunk i.  A
\* document with entries in the index has them all.
C21_IndexMatchesRecord ==
    /\ [](\A d \in DOMAIN docs :
            EntriesOf(index, d) = {} \/ OnePerRecordChunk(index, d))
    /\ [][\A p \in Procs :
            (/\ proc[p].op = "ingest" /\ proc[p].pc = "add"
             /\ proc'[p].path = "indexed")
            => IndexedInChunkOrder(p)]_vars

C21_Witness ==
    \E p \in Procs :
        /\ proc[p].op = "ingest" /\ proc[p].pc = "done" /\ proc[p].path = "indexed"
        /\ Len(proc[p].chunks) = 2
        /\ Cardinality(EntriesOf(index, proc[p].docId)) = 2
        /\ \E e \in index : e.documentId = proc[p].docId /\ e.embedding.src = "mock"
        /\ \E e \in index : e.documentId = proc[p].docId /\ e.embedding.src = "upstream"

\* handler p starts deleteDocument(d, u) and deleteOne removes nothing: d
\* does not exist, u does not own it, or the call throws
DeleteRemovesNothing(p) ==
    /\ proc[p].pc = "idle" /\ proc'[p].op = "delete"
    /\ \/ proc'[p].docId \notin DOMAIN docs
       \/ docs[proc'[p].docId].userId # proc'[p].userId
       \/ proc'[p].path = "caught"

\* collection.delete is called by handler p in this step or the next
IndexDeleteAttempted(p) == proc'[p].pc = "indexDelete"

\* C22: deleteDocument(d, u) where u is not the owner of d, or d does not
\* exist, or the store delete raises, returns false and leaves the
\* Metadata Store and the Vector Index unchanged, and no index delete is
\* attempted; an index delete is attempted only after the store delete
\* removed a record, and entries leave the index only by such a delete.
C22_RefusedDeleteChangesNothing ==
    [][/\ \A p \in Procs :
            DeleteRemovesNothing(p)
            => /\ proc'[p].pc = "done" /\ proc'[p].flag = FALSE
               /\ proc'[p].outcome = "ok"
               /\ docs' = docs /\ index' = index
               /\ ~IndexDeleteAttempted(p)
       /\ \A p \in Procs :
            (proc[p].pc # "indexDelete" /\ IndexDeleteAttempted(p))
            => /\ proc'[p].docId \in DOMAIN docs
               /\ proc'[p].docId \notin DOMAIN docs'
               /\ docs[proc'[p].docId].userId = proc'[p].userId
       /\ (index \ index' # {})
            => \E p \in Procs : /\ proc[p].pc = "indexDelete"
                                /\ proc[p].docId \notin DOMAIN docs
                                /\ \A e \in index \ index' :
                                     e.documentId = proc[p].docId]_vars

C22_Witness ==
    \E p \in Procs :
        /\ proc[p].op = "delete" /\ proc[p].pc = "done" /\ proc[p].flag = FALSE
        /\ proc[p].path = "nomatch"
        /\ proc[p].docId \in DOMAIN docs
        /\ docs[proc[p].docId].userId # proc[p].userId
        /\ EntriesOf(index, proc[p].docId) # {}

\* the vectors a successful embedContent left in the cache for a text with
\* the first 100 characters of text
EmbeddedBefore(text) ==
    {embeddingCache[k] : k \in {x \in DOMAIN embeddingCache :
        /\ embeddingCache[x].src = "upstream"
        /\ embeddingCache[x].of[1] = text[1]}}

\* C23: a generateEmbedding call whose text shares its first 100 characters
\* with a text embedded successfully before returns the cached vector at
\* once, without a call of the upstream service and without the rate-limit
\* delay, also inside a quota window, and leaves quotaExceeded,
\* quotaResetTime, lastEmbeddingCall and the cache unchanged.
C23_CacheHit ==
    [][\A c \in Callers :
          (CallStarts(c) /\ EmbeddedBefore(call'[c].text) # {})
          => /\ call'[c].pc = "done"
             /\ call'[c].result \in EmbeddedBefore(call'[c].text)
             /\ upstreamStartedAt' = upstreamStartedAt
             /\ now' = now
             /\ quotaExceeded' = quotaExceeded
             /\ quotaResetTime' = quotaResetTime
             /\ lastEmbeddingCall' = lastEmbeddingCall
             /\ embeddingCache' = embeddingCache]_vars

\* inside a quota window a call got the vector cached for another text with
\* the same first 100 characters
C23_Witness ==
    \E c \in Callers :
        /\ call[c].pc = "done" /\ call[c].path = "cache"
        /\ quotaExceeded /\ now < quotaResetTime
        /\ call[c].result.src = "upstream"
        /\ call[c].result.of # call[c].text
        /\ call[c].result.of[1] = call[c].text[1]

\* the call of c returns in this step
CallReturns(c) == call[c].pc # "done" /\ call'[c].pc = "done"

\* the step leaves the quota window and the cache as they were
QuotaAndCacheKept ==
    /\ quotaExceeded' = quotaExceeded
    /\ quotaResetTime' = quotaResetTime
    /\ embeddingCache' = embeddingCache

\* C24: a generateEmbedding call that fails upstream with an error that is
\* neither status 429 nor a message with 'quota', or that runs with no
\* provider configured, returns a mock vector and leaves quotaExceeded,
\* quotaResetTime and the cache exactly as before.
C24_OtherFailuresKeepQuota ==
    [][\A c \in Callers :
          /\ (CallReturns(c) /\ call'[c].path \in {"error", "unconfigured"})
             => /\ call'[c].result = [src |-> "mock", dim |-> EmbeddingDim,
                                      of |-> <<"", "">>]
                /\ QuotaAndCacheKept
          /\ (CallStarts(c) /\ ~genAI)
             => /\ call'[c].pc = "done" /\ call'[c].result.src = "mock"
                /\ upstreamStartedAt' = upstreamStartedAt
                /\ QuotaAndCacheKept
          /\ (CallReturns(c) /\ call'[c].path = "unconfigured") => ~genAI
          /\ (CallReturns(c) /\ call'[c].path = "error")
             => call[c].pc = "upstream"]_vars

\* an upstream error that is no rate-limit error came back while
\* quotaExceeded was set and a vector was cached: both are still there
C24_Witness ==
    \E c \in Callers :
        /\ call[c].pc = "done" /\ call[c].path = "error"
        /\ call[c].result.src = "mock"
        /\ quotaExceeded
        /\ embeddingCache # <<>>

\* embedContent is invoked for the call of c in this step
UpstreamStarts(c) == call[c].pc # "upstream" /\ call'[c].pc = "upstream"

\* the window of the last recorded rate-limit error is still running
InsideRecordedWindow == rateLimited.seen /\ now < rateLimited.reset

\* C25: under any interleaving of concurrent generateEmbedding calls, once
\* some call has recorded a rate-limit error, isQuotaExceeded() stays true
\* and no upstream call is started until the recorded reset time: a call in
\* flight does not reopen the window.
C25_WindowHoldsUnderConcurrency ==
    /\ [](InsideRecordedWindow => isQuotaExceeded)
    /\ [][InsideRecordedWindow => \A c \in Callers : ~UpstreamStarts(c)]_vars

\* the index entries of the processed documents the search of p found
EntriesOfFound(p) == {e \in index : e.documentId \in proc[p].documentIds}

\* C26: on the Vector Index path searchDocuments returns exactly
\* min(topK, number of index entries of the bot's processed documents)
\* hits, whatever entries of other bots or of deleted documents the index
\* holds: the over-fetch of topK * 2 never leaves the bot short.
C26_OverFetchSuffices ==
    [][\A p \in Procs :
          (/\ proc[p].op = "search" /\ proc[p].pc = "query"
           /\ proc'[p].pc = "done" /\ proc'[p].path = "vector")
          => Len(proc'[p].results)
               = Min(proc[p].topK, Cardinality(EntriesOfFound(p)))]_vars

\* C27: every Document record has at least one chunk (totalChunks >= 1):
\* an ingest whose text yields no chunk that survives the 50-character
\* filter does not persist a record.
C27_AtLeastOneChunk ==
    \A d \in DOMAIN docs :
        /\ docs[d].totalChunks >= 1
        /\ Len(docs[d].chunks) >= 1

\* C28: in every reachable state getQuotaResetTime() returns a non-negative
\* number of seconds, and 0 whenever isQuotaExceeded() is false, in
\* particular after the reset time has passed without a successful upstream
\* call.
C28_ResetTimeNonNegative ==
    /\ getQuotaResetTime >= 0
    /\ ~isQuotaExceeded => getQuotaResetTime = 0

\* every cached vector came from embedContent, for a text whose first 100
\* characters are the key
CacheHoldsUpstreamVectors ==
    \A k \in DOMAIN embeddingCache :
        /\ embeddingCache[k].src = "upstream"
        /\ embeddingCache[k].dim = EmbeddingDim
        /\ embeddingCache[k].of[1] = k

\* a call that returns a mock vector leaves the cache alone
MockNeverCached ==
    \A c \in Callers :
        (CallReturns(c) /\ call'[c].result.src = "mock")
        => embeddingCache' = embeddingCache

\* C29 as stated: the cache maps a key only to a vector that a successful
\* upstream call returned for a text with that 100-character prefix; mock
\* vectors are never cached, so a text that once received a mock vector is
\* sent to the upstream service on its next call outside the quota window.
C29_MockedTextGoesUpstream ==
    /\ []CacheHoldsUpstreamVectors
    /\ [][/\ MockNeverCached
          /\ \A c \in Callers :
               (/\ CallStarts(c) /\ call'[c].text \in mocked
                /\ ~isQuotaExceeded)
               => GoesUpstream(c)]_vars

\* C29, amended: as stated, for a service with a provider configured and a
\* text for whose first 100 characters no vector has been cached since.
C29_MockedTextGoesUpstreamUnlessCached ==
    /\ []CacheHoldsUpstreamVectors
    /\ [][/\ MockNeverCached
          /\ \A c \in Callers :
               (/\ CallStarts(c) /\ call'[c].text \in mocked
                /\ ~isQuotaExceeded
                /\ genAI
                /\ EmbeddedBefore(call'[c].text) = {})
               => GoesUpstream(c)]_vars

\* a text that got a mock vector before is at embedContent, outside the
\* quota window, while the cache holds a vector under another key
C29_Witness ==
    \E c \in Callers :
        /\ call[c].pc = "upstream" /\ call[c].text \in mocked
        /\ ~isQuotaExceeded
        /\ embeddingCache # <<>>
        /\ CacheKey(call[c].text) \notin DOMAIN embeddingCache

\* C30: fallbackChunking(text) terminates for every input text and returns
\* a finite list: a call that has entered the loop reaches its return.
C30_FallbackTerminates ==
    (fallback.pc = "test") ~> (fallback.pc = "done")

====
